---------------------------- MODULE Spec2Model ----------------------------
(***************************************************************************)
(* Model of usagi-shopping-list.c: the growable item list, the line-based  *)
(* save/load format, the slash-command interpreter and the two-state       *)
(* interaction loop of main().                                             *)
(*                                                                         *)
(* Text is a sequence of one-character strings.  The list is modelled by   *)
(* its live slots items[0..count-1] (a sequence, count = Len) and its      *)
(* capacity; slots at and beyond count are never read by the program.      *)
(* Prompts and the welcome banner are not recorded in the output.          *)
(***************************************************************************)
EXTENDS Integers, Sequences, FiniteSets, TLC

VARIABLES
    items,      \* list->items[0 .. count-1], each a text
    capacity,   \* list->capacity
    files,      \* the file system: path -> content, or NoFile
    stdin,      \* bytes of the current input line that fgets left unread
    buf,        \* main()'s buf: the text last read, after rtrim
    pc,         \* position of main(): AwaitingItem, AwaitingConfirmation, Finalize,
                \* Quit (after /quit), Fatal (after a failed allocation)
    out,        \* what the last step printed (messages in order)
    exitStatus, \* "none" while running, else the process exit status
    openFiles   \* the paths of the FILE handles that are open

vars == <<items, capacity, files, stdin, buf, pc, out, exitStatus, openFiles>>

-----------------------------------------------------------------------------
(* Constants of the program and bounds of the model *)

INITIAL_CAPACITY == 8
BUFFER_SIZE == 1024

\* Lists longer than MaxItems are not explored, and a list longer than
\* MaxSaved is not written to a file.
MaxItems == 3
MaxSaved == 1
MaxGrow == 17

-----------------------------------------------------------------------------
(* Characters and <ctype.h>, <string.h>, <stdlib.h>, <stdio.h> helpers *)

Min(S) == CHOOSE x \in S : \A y \in S : x <= y

\* isspace() in the C locale (vertical tab has no TLA+ escape and is not used).
isspace(c) == c \in {" ", "\t", "\n", "\r", "\f"}

\* The test of rtrim's loop on the last character.
IsTrimmed(c) == c = "\n" \/ c = "\r" \/ isspace(c)

\* The length rtrim's loop stops at: no trailing character of s beyond it is
\* kept, and it is 0 or the place of a character that stays.  (Stated without
\* recursion: the loop runs up to BUFFER_SIZE - 1 times.)
rtrimLen(s) ==
    CHOOSE n \in 0..Len(s) :
        /\ n > 0 => ~IsTrimmed(s[n])
        /\ \A i \in (n + 1)..Len(s) : IsTrimmed(s[i])

\* A faulty rtrim: it strips the newline only.
rtrimNewlineOnly(s) ==
    IF Len(s) > 0 /\ s[Len(s)] = "\n" THEN SubSeq(s, 1, Len(s) - 1) ELSE s

rtrim(s) == SubSeq(s, 1, rtrimLen(s))

\* Number of bytes one fgets(buf, BUFFER_SIZE, f) takes from the unread bytes
\* `rest`: up to and including the first newline, at most BUFFER_SIZE - 1.
\* 0 means fgets returned NULL (end of file).
fgetsLen(rest) ==
    LET lim == IF Len(rest) < BUFFER_SIZE - 1 THEN Len(rest) ELSE BUFFER_SIZE - 1
        nl  == {i \in 1..lim : rest[i] = "\n"}
    IN  IF nl = {} THEN lim ELSE Min(nl)

\* strtok(s, " \t") continued at position pos: the next token and where the
\* scan resumes.  tok = <<>> stands for the NULL result.
IsDelim(c) == c \in {" ", "\t"}

RECURSIVE skipDelims(_, _)
skipDelims(s, i) == IF i <= Len(s) /\ IsDelim(s[i]) THEN skipDelims(s, i + 1) ELSE i

RECURSIVE scanToken(_, _)
scanToken(s, i) == IF i <= Len(s) /\ ~IsDelim(s[i]) THEN scanToken(s, i + 1) ELSE i

strtok(s, pos) ==
    LET b == skipDelims(s, pos)
        e == scanToken(s, b)
    IN  IF b > Len(s)
        THEN [tok |-> <<>>, next |-> Len(s) + 1]
        ELSE [tok |-> SubSeq(s, b, e - 1), next |-> e + 1]

Digits == <<"0", "1", "2", "3", "4", "5", "6", "7", "8", "9">>
IsDigit(c) == \E d \in 1..10 : Digits[d] = c
DigitVal(c) == (CHOOSE d \in 1..10 : Digits[d] = c) - 1

RECURSIVE strtolDigits(_, _, _)
strtolDigits(s, i, acc) ==
    IF i <= Len(s) /\ IsDigit(s[i])
    THEN strtolDigits(s, i + 1, acc * 10 + DigitVal(s[i]))
    ELSE acc

RECURSIVE skipSpace(_, _)
skipSpace(s, i) == IF i <= Len(s) /\ isspace(s[i]) THEN skipSpace(s, i + 1) ELSE i

\* A faulty strtol: it skips a sign but does not apply it.
strtolNoSign(s) ==
    LET i == skipSpace(s, 1)
        j == IF i <= Len(s) /\ (s[i] = "-" \/ s[i] = "+") THEN i + 1 ELSE i
    IN  strtolDigits(s, j, 0)

\* strtol(s, NULL, 10): leading white space, an optional sign, then digits;
\* 0 when no digit follows.  (Clamping at LONG_MAX needs 19 digits and is not
\* reached by the inputs explored.)
strtol(s) ==
    LET i   == skipSpace(s, 1)
        neg == i <= Len(s) /\ s[i] = "-"
        j   == IF i <= Len(s) /\ (s[i] = "-" \/ s[i] = "+") THEN i + 1 ELSE i
        v   == strtolDigits(s, j, 0)
    IN  IF neg THEN 0 - v ELSE v

-----------------------------------------------------------------------------
(* Output messages *)

Msg(m) == [msg |-> m, n |-> 0, text |-> <<>>]
MsgN(m, k, t) == [msg |-> m, n |-> k, text |-> t]

-----------------------------------------------------------------------------
(* The list: a record [items, capacity] *)

create_list == [items |-> <<>>, capacity |-> INITIAL_CAPACITY]

\* A faulty ensure_capacity: if (list->count > list->capacity).
ensure_capacityLate(list) ==
    IF Len(list.items) > list.capacity
    THEN [list EXCEPT !.capacity = list.capacity * 2]
    ELSE list

ensure_capacity(list) ==
    IF Len(list.items) >= list.capacity
    THEN [list EXCEPT !.capacity = list.capacity * 2]
    ELSE list

\* A faulty add_item, used to test the properties: it stores the new item in
\* front of the others.
add_itemFront(list, item) ==
    IF item = <<>>
    THEN list
    ELSE LET l1 == ensure_capacity(list)
         IN  [l1 EXCEPT !.items = <<item>> \o l1.items]

\* A faulty add_item: it skips a text the list already holds.
add_itemNoDup(list, item) ==
    IF item = <<>> \/ (\E i \in 1..Len(list.items) : list.items[i] = item)
    THEN list
    ELSE LET l1 == ensure_capacity(list)
         IN  [l1 EXCEPT !.items = Append(l1.items, item)]

add_item(list, item) ==
    IF item = <<>>
    THEN list
    ELSE LET l1 == ensure_capacity(list)
         IN  [l1 EXCEPT !.items = Append(l1.items, item)]

\* A faulty print_list: printf("%zu. %s\n", i, ...), positions from 0.
print_listZeroBased(list) ==
    IF Len(list.items) = 0
    THEN <<Msg("(shopping list is empty)")>>
    ELSE <<Msg("Your shopping list:")>> \o
         [i \in 1..Len(list.items) |-> MsgN("row", i - 1, list.items[i])]

print_list(list) ==
    IF Len(list.items) = 0
    THEN <<Msg("(shopping list is empty)")>>
    ELSE <<Msg("Your shopping list:")>> \o
         [i \in 1..Len(list.items) |-> MsgN("row", i, list.items[i])]

\* for (i = index; i + 1 < count; ++i) items[i] = items[i+1];
\* with C slot i kept at position i + 1 of the sequence.
RECURSIVE shift_down(_, _)
shift_down(its, i) ==
    IF i + 1 < Len(its)
    THEN shift_down([its EXCEPT ![i + 1] = its[i + 2]], i + 1)
    ELSE its

\* A faulty remove_item: it forgets the shifting loop and only does count--.
remove_itemNoShift(list, index) ==
    IF index >= Len(list.items)
    THEN [list |-> list, out |-> <<Msg("Invalid index")>>]
    ELSE [list |-> [list EXCEPT !.items = SubSeq(list.items, 1, Len(list.items) - 1)],
          out  |-> <<>>]

\* index is the 0-based size_t argument.  After the loop, count-- drops the
\* last slot from the live part.
\* A faulty remove_item: an index past the end is clamped to the last item.
remove_itemClamp(list, index) ==
    IF index >= Len(list.items)
    THEN [list |-> [list EXCEPT !.items = SubSeq(list.items, 1, Len(list.items) - 1)],
          out  |-> <<Msg("Invalid index")>>]
    ELSE [list |-> [list EXCEPT !.items =
                        SubSeq(shift_down(list.items, index), 1, Len(list.items) - 1)],
          out  |-> <<>>]

remove_item(list, index) ==
    IF index >= Len(list.items)
    THEN [list |-> list, out |-> <<Msg("Invalid index")>>]
    ELSE [list |-> [list EXCEPT !.items =
                        SubSeq(shift_down(list.items, index), 1, Len(list.items) - 1)],
          out  |-> <<>>]

-----------------------------------------------------------------------------
(* Persistence.  A file is [exists, data]; fopen(path, "w") succeeds on the *)
(* paths in Writable, fopen(path, "r") on the files that exist.             *)

NoFile == [exists |-> FALSE, data |-> <<>>]
File(d) == [exists |-> TRUE, data |-> d]

PathF == <<"F">>    \* a path the process may create and write; absent at start
PathG == <<"G">>    \* an existing file the process may read but not write
Paths == {PathF, PathG}
Writable == {PathF}

fopen_w(fs, filename) == filename \in Writable
fopen_r(fs, filename) == filename \in DOMAIN fs /\ fs[filename].exists

\* A faulty save loop: fprintf(f, "%s", items[i]), the newline forgotten.
RECURSIVE save_linesNoNewline(_, _)
save_linesNoNewline(its, i) ==
    IF i > Len(its) THEN <<>> ELSE its[i] \o save_linesNoNewline(its, i + 1)

\* The bytes the loop of fprintf(f, "%s\n", items[i]) writes from item i on.
RECURSIVE save_lines(_, _)
save_lines(its, i) ==
    IF i > Len(its) THEN <<>> ELSE its[i] \o <<"\n">> \o save_lines(its, i + 1)

\* A faulty save_to_file: fopen(filename, "a"), which keeps the old content.
save_to_fileAppend(list, fs, filename) ==
    IF ~fopen_w(fs, filename)
    THEN [fs |-> fs, out |-> <<Msg("Failed to open file")>>]
    ELSE [fs  |-> [fs EXCEPT ![filename] =
                      File(fs[filename].data \o save_lines(list.items, 1))],
          out |-> <<MsgN("Saved", Len(list.items), filename)>>]

save_to_file(list, fs, filename) ==
    IF ~fopen_w(fs, filename)
    THEN [fs |-> fs, out |-> <<Msg("Failed to open file")>>]
    ELSE [fs  |-> [fs EXCEPT ![filename] = File(save_lines(list.items, 1))],
          out |-> <<MsgN("Saved", Len(list.items), filename)>>]

\* while (fgets(buf, sizeof(buf), f)) { rtrim(buf); if empty continue; add_item }
RECURSIVE load_loop(_, _)
load_loop(list, rest) ==
    IF fgetsLen(rest) = 0
    THEN list
    ELSE LET n   == fgetsLen(rest)
             line == rtrim(SubSeq(rest, 1, n))
         IN  load_loop(IF line = <<>> THEN list ELSE add_item(list, line),
                       SubSeq(rest, n + 1, Len(rest)))

load_from_file(list, fs, filename) ==
    IF ~fopen_r(fs, filename)
    THEN [list |-> list, out |-> <<Msg("Failed to open file")>>]
    ELSE LET l1 == load_loop(list, fs[filename].data)
         IN  [list |-> l1, out |-> <<MsgN("Loaded", Len(l1.items), filename)>>]

-----------------------------------------------------------------------------
(* Command interpreter *)

Str_view   == <<"/", "v", "i", "e", "w">>
Str_remove == <<"/", "r", "e", "m", "o", "v", "e">>
Str_save   == <<"/", "s", "a", "v", "e">>
Str_load   == <<"/", "l", "o", "a", "d">>
Str_clear  == <<"/", "c", "l", "e", "a", "r">>
Str_help   == <<"/", "h", "e", "l", "p">>
\* A faulty command name.
Str_quitUpper == <<"/", "Q", "U", "I", "T">>
Str_quit   == <<"/", "q", "u", "i", "t">>

\* A faulty clearing loop: if (list->count) remove_item(list, 0);
clear_loopOnce(list) ==
    IF Len(list.items) # 0 THEN remove_item(list, 0).list ELSE list

\* while (list->count) remove_item(list, 0);
RECURSIVE clear_loop(_)
clear_loop(list) ==
    IF Len(list.items) # 0 THEN clear_loop(remove_item(list, 0).list) ELSE list

TheList == [items |-> items, capacity |-> capacity]

\* A faulty test: it takes a lone "/" for an item.
IsCommandLong(input) == input[1] = "/" /\ Len(input) > 1

\* The return value of try_handle_command: 0 when input[0] != '/', else 1.
IsCommand(input) == input[1] = "/"

\* A command that prints `o` and changes nothing else.
Report(o) ==
    /\ out' = o
    /\ UNCHANGED <<items, capacity, files, pc, exitStatus>>

\* The list after a command: list->items, list->count, list->capacity.
SetList(list) ==
    /\ items' = list.items
    /\ capacity' = list.capacity

\* try_handle_command(list, input) for an input that starts with '/'.
try_handle_command(input) ==
    \E t1 \in {strtok(input, 1)} :
    \E cmd \in {t1.tok} :
    \E arg \in {strtok(input, t1.next).tok} :
        IF cmd = <<>> THEN Report(<<>>)
        ELSE IF cmd = Str_view THEN Report(print_list(TheList))
        ELSE IF cmd = Str_remove THEN
            IF arg = <<>> THEN Report(<<Msg("Usage: /remove INDEX")>>)
            ELSE \E idx \in {strtol(arg)} :
                 IF idx <= 0
                 THEN Report(<<Msg("Specify a positive index")>>)
                 ELSE \E r \in {remove_item(TheList, idx - 1)} :
                      /\ SetList(r.list)
                      /\ out' = r.out
                      /\ UNCHANGED <<files, pc, exitStatus>>
        ELSE IF cmd = Str_save THEN
            IF arg = <<>> THEN Report(<<Msg("Usage: /save filename")>>)
            ELSE \E r \in {save_to_file(TheList, files, arg)} :
                 /\ files' = r.fs
                 /\ out' = r.out
                 /\ UNCHANGED <<items, capacity, pc, exitStatus>>
        ELSE IF cmd = Str_load THEN
            IF arg = <<>> THEN Report(<<Msg("Usage: /load filename")>>)
            ELSE \E r \in {load_from_file(TheList, files, arg)} :
                 /\ SetList(r.list)
                 /\ out' = r.out
                 /\ UNCHANGED <<files, pc, exitStatus>>
        ELSE IF cmd = Str_clear THEN
            /\ SetList(clear_loop(TheList))
            /\ out' = <<Msg("Cleared the list")>>
            /\ UNCHANGED <<files, pc, exitStatus>>
        ELSE IF cmd = Str_help THEN Report(<<Msg("Commands:")>>)
        ELSE IF cmd = Str_quit THEN
            /\ out' = <<Msg("Goodbye!")>>
            /\ pc' = "Quit"
            /\ exitStatus' = "EXIT_SUCCESS"
            /\ UNCHANGED <<items, capacity, files>>
        ELSE Report(<<Msg("Unknown command. Type /help for commands.")>>)

-----------------------------------------------------------------------------
(* main(): the interaction loop *)

\* A faulty exit path: it saves the list to F before leaving.
FinalizeAutosave ==
    /\ pc' = "Finalize"
    /\ out' = <<Msg("Final list:")>> \o print_list(TheList)
    /\ exitStatus' = "EXIT_SUCCESS"
    /\ files' = save_to_file(TheList, files, PathF).fs
    /\ UNCHANGED <<items, capacity>>

\* done: printf("\nFinal list:\n"); print_list(list); free_list(list); return 0;
Finalize ==
    /\ pc' = "Finalize"
    /\ out' = <<Msg("Final list:")>> \o print_list(TheList)
    /\ exitStatus' = "EXIT_SUCCESS"
    /\ UNCHANGED <<items, capacity, files>>

\* What the next fgets(buf, sizeof(buf), stdin) can read from: the rest of a
\* line longer than the buffer, else any line the user may type.
Source(typed) == IF stdin # <<>> THEN {stdin} ELSE typed

\* The steps explored: see MaxItems and MaxSaved.
WithinBounds ==
    /\ Len(items') <= MaxItems
    /\ files' # files => Len(items) <= MaxSaved

\* A faulty outer loop: the call of try_handle_command is missing, so a command
\* line is added as an item.
AwaitingItemOnNoCommands(src) ==
    \E n \in {fgetsLen(src)} :
    \E text \in {rtrim(SubSeq(src, 1, n))} :
        /\ stdin' = SubSeq(src, n + 1, Len(src))
        /\ buf' = text
        /\ IF text = <<>> THEN Report(<<Msg("(no input)")>>)
           ELSE /\ SetList(add_item(TheList, text))
                /\ out' = <<MsgN("Added", 0, text)>>
                /\ pc' = "AwaitingConfirmation"
                /\ UNCHANGED <<files, exitStatus>>

\* One pass of the outer for (;;) that reads the line `src` (lines 188-200).
AwaitingItemOn(src) ==
    \E n \in {fgetsLen(src)} :
    \E text \in {rtrim(SubSeq(src, 1, n))} :
        /\ stdin' = SubSeq(src, n + 1, Len(src))
        /\ buf' = text
        /\ IF text = <<>> THEN Report(<<Msg("(no input)")>>)
           ELSE IF IsCommand(text) THEN try_handle_command(text)
           ELSE /\ SetList(add_item(TheList, text))
                /\ out' = <<MsgN("Added", 0, text)>>
                /\ pc' = "AwaitingConfirmation"
                /\ UNCHANGED <<files, exitStatus>>

AwaitingItemLine(typed) ==
    /\ pc = "AwaitingItem"
    /\ \E src \in Source(typed) : AwaitingItemOn(src)
    /\ UNCHANGED openFiles     \* each fopen is followed by its fclose (lines 110, 126)
    /\ WithinBounds

\* if (!fgets(buf, sizeof(buf), stdin)) break;
AwaitingItemEof ==
    /\ pc = "AwaitingItem"
    /\ stdin = <<>>
    /\ UNCHANGED <<stdin, buf, openFiles>>
    /\ Finalize

\* A faulty inner loop: it takes only a lower-case y or n for an answer.
AwaitingConfirmationOnLower(src) ==
    \E n \in {fgetsLen(src)} :
    \E text \in {rtrim(SubSeq(src, 1, n))} :
        /\ stdin' = SubSeq(src, n + 1, Len(src))
        /\ buf' = text
        /\ IF text = <<>> THEN Report(<<Msg("Please answer y or n.")>>)
           ELSE IF text[1] = "y"
           THEN /\ pc' = "AwaitingItem"
                /\ out' = <<>>
                /\ UNCHANGED <<items, capacity, files, exitStatus>>
           ELSE IF text[1] = "n" THEN Finalize
           ELSE IF text[1] = "/"
           THEN IF IsCommand(text) THEN try_handle_command(text)
                ELSE Report(<<Msg("Please answer y or n or enter a command starting with /.")>>)
           ELSE Report(<<Msg("Please answer y or n. You can also use /view, /save, /help, etc.")>>)

\* One pass of the inner for (;;) that reads the line `src` (lines 204-218).
AwaitingConfirmationOn(src) ==
    \E n \in {fgetsLen(src)} :
    \E text \in {rtrim(SubSeq(src, 1, n))} :
        /\ stdin' = SubSeq(src, n + 1, Len(src))
        /\ buf' = text
        /\ IF text = <<>> THEN Report(<<Msg("Please answer y or n.")>>)
           ELSE IF text[1] = "y" \/ text[1] = "Y"
           THEN /\ pc' = "AwaitingItem"
                /\ out' = <<>>
                /\ UNCHANGED <<items, capacity, files, exitStatus>>
           ELSE IF text[1] = "n" \/ text[1] = "N" THEN Finalize
           ELSE IF text[1] = "/"
           THEN IF IsCommand(text) THEN try_handle_command(text)
                ELSE Report(<<Msg("Please answer y or n or enter a command starting with /.")>>)
           ELSE Report(<<Msg("Please answer y or n. You can also use /view, /save, /help, etc.")>>)

AwaitingConfirmationLine(typed) ==
    /\ pc = "AwaitingConfirmation"
    /\ \E src \in Source(typed) : AwaitingConfirmationOn(src)
    /\ UNCHANGED openFiles     \* each fopen is followed by its fclose (lines 110, 126)
    /\ WithinBounds

\* if (!fgets(buf, sizeof(buf), stdin)) goto done;
AwaitingConfirmationEof ==
    /\ pc = "AwaitingConfirmation"
    /\ stdin = <<>>
    /\ UNCHANGED <<stdin, buf, openFiles>>
    /\ Finalize

-----------------------------------------------------------------------------
(* The lines a user types, each ended by a newline *)

Line(s) == s \o <<"\n">>

LineA      == <<"a", " ", "\r", "\n">>     \* an item with trailing blank and CR LF
LineY      == Line(<<"y">>)
LineN      == Line(<<"N">>)
LineEmpty  == Line(<<>>)
LineBlank  == <<" ", "\t", "\r", "\n">>
\* A line longer than the buffer: "a", then blanks up to BUFFER_SIZE - 1 bytes,
\* then "y" and the newline.
Blanks(k)  == [i \in 1..k |-> " "]
LineLong   == <<"a">> \o Blanks(BUFFER_SIZE - 2) \o <<"y", "\n">>
\* A line of exactly BUFFER_SIZE - 1 bytes before its newline.
LineMax    == [i \in 1..(BUFFER_SIZE - 1) |-> "z"] \o <<"\n">>
ItemLines  == {LineA, LineY, LineN}
LineCRLF   == <<"\r", "\n">>
LineSpaces == <<" ", " ", " ", "\n">>
BlankLines == {LineEmpty, LineBlank, LineCRLF, LineSpaces}

RemoveLine(arg) == Line(Str_remove \o <<" ">> \o arg)
RemoveLines ==
    { RemoveLine(<<"1">>), RemoveLine(<<"2">>), RemoveLine(<<"3">>),
      RemoveLine(<<"0">>), RemoveLine(<<"-", "1">>), RemoveLine(<<"x">>),
      Line(Str_remove \o <<" ", "\t", "+", "2", "x", " ", "1">>),
      Line(Str_remove) }

FileLines ==
    { Line(Str_save \o <<" ">> \o PathF), Line(Str_save \o <<" ">> \o PathG),
      Line(Str_save),
      Line(Str_load \o <<" ">> \o PathF), Line(Str_load \o <<" ">> \o PathG),
      Line(Str_load) }

OtherCommandLines ==
    { Line(Str_view), Line(Str_clear), Line(Str_help), Line(Str_quit),
      Line(<<"/">>), Line(Str_view \o <<"s">>) }

Lines == ItemLines \cup BlankLines \cup RemoveLines \cup FileLines \cup OtherCommandLines

\* The file G: a CR LF line, a line of white space, and a last line with
\* trailing white space and no newline.
DataG == <<"N", "\r", "\n", " ", "\r", "\n", "a", " ", "\t">>

\* Another content of G: a single line of BUFFER_SIZE bytes before its newline.
DataGLong == <<"a">> \o Blanks(BUFFER_SIZE - 2) \o <<"a", "\n">>

\* The state after create_list() and the banner, with G holding `g`.
InitWith(g) ==
    /\ items = create_list.items
    /\ capacity = create_list.capacity
    /\ files = [p \in Paths |-> IF p = PathG THEN File(g) ELSE NoFile]
    /\ stdin = <<>>
    /\ buf = <<>>
    /\ pc = "AwaitingItem"
    /\ out = <<>>
    /\ exitStatus = "none"
    /\ openFiles = {}

Init == InitWith(DataG)

Next ==
    \/ AwaitingItemLine(Lines)
    \/ AwaitingItemEof
    \/ AwaitingConfirmationLine(Lines)
    \/ AwaitingConfirmationEof

Spec == Init /\ [][Next]_vars

\* The same program where the user also types a line longer than the buffer
\* and G holds one.
LongLines ==
    { LineLong, LineMax, LineEmpty,
      Line(Str_save \o <<" ">> \o PathF),
      Line(Str_load \o <<" ">> \o PathF), Line(Str_load \o <<" ">> \o PathG),
      Line(Str_view), Line(Str_clear), RemoveLine(<<"1">>) }

InitLong == InitWith(DataGLong)

NextLong ==
    \/ AwaitingItemLine(LongLines)
    \/ AwaitingItemEof
    \/ AwaitingConfirmationLine(LongLines)
    \/ AwaitingConfirmationEof

SpecLong == InitLong /\ [][NextLong]_vars

-----------------------------------------------------------------------------
(* The same program with lists long enough for the capacity to double twice *)

\* The one text typed, "y", is an item at the first prompt and the answer at
\* the second, so that the lists differ by their length only.
GrowLines ==
    { LineY, LineBlank, RemoveLine(<<"1">>), RemoveLine(<<"9">>),
      Line(Str_clear), Line(Str_load \o <<" ">> \o PathG) }

\* Another content of G: three items and a blank line.
DataGrow == <<"y", "\n", "\n", "y", " ", "\n", "y", "\n">>

InitGrow == InitWith(DataGrow)

AwaitingItemGrow ==
    /\ pc = "AwaitingItem"
    /\ \E src \in Source(GrowLines) : AwaitingItemOn(src)
    /\ UNCHANGED openFiles
    /\ Len(items') <= MaxGrow

AwaitingConfirmationGrow ==
    /\ pc = "AwaitingConfirmation"
    /\ \E src \in Source(GrowLines) : AwaitingConfirmationOn(src)
    /\ UNCHANGED openFiles
    /\ Len(items') <= MaxGrow

NextGrow ==
    \/ AwaitingItemGrow
    \/ AwaitingItemEof
    \/ AwaitingConfirmationGrow
    \/ AwaitingConfirmationEof

SpecGrow == InitGrow /\ [][NextGrow]_vars

-----------------------------------------------------------------------------
(* The same program where malloc, calloc, realloc or strdup may return NULL *)

\* A faulty exit: fprintf(stderr, "Out of memory\n"); exit(EXIT_SUCCESS);
OutOfMemorySuccess ==
    /\ out' = <<Msg("Out of memory")>>
    /\ pc' = "Fatal"
    /\ exitStatus' = "EXIT_SUCCESS"
    /\ UNCHANGED files

\* fprintf(stderr, "Out of memory\n"); exit(EXIT_FAILURE);
OutOfMemory ==
    /\ out' = <<Msg("Out of memory")>>
    /\ pc' = "Fatal"
    /\ exitStatus' = "EXIT_FAILURE"
    /\ UNCHANGED files

\* The lists with which the loop of load_from_file calls add_item: the list
\* before each non-empty piece of `rest` is added.
RECURSIVE load_adds(_, _)
load_adds(list, rest) ==
    IF fgetsLen(rest) = 0
    THEN {}
    ELSE LET n    == fgetsLen(rest)
             line == rtrim(SubSeq(rest, 1, n))
             tail == SubSeq(rest, n + 1, Len(rest))
         IN  IF line = <<>>
             THEN load_adds(list, tail)
             ELSE {list} \cup load_adds(add_item(list, line), tail)

\* add_item(list, item) where realloc (in ensure_capacity) or strdup fails:
\* the capacity is already doubled, the item is not stored.
add_item_fails(list) ==
    /\ SetList(ensure_capacity(list))
    /\ OutOfMemory

\* try_handle_command(list, input) where /load opens the file and an add_item
\* of its loop fails: exit() is called before fclose(f).
load_fails(input) ==
    \E t1 \in {strtok(input, 1)} :
    \E arg \in {strtok(input, t1.next).tok} :
        /\ t1.tok = Str_load
        /\ arg # <<>>
        /\ fopen_r(files, arg)
        /\ \E list \in load_adds(TheList, files[arg].data) :
               /\ add_item_fails(list)
               /\ openFiles' = openFiles \cup {arg}

\* A pass of the outer loop in which an allocation fails.
AwaitingItemAllocFails(typed) ==
    /\ pc = "AwaitingItem"
    /\ \E src \in Source(typed) :
       \E n \in {fgetsLen(src)} :
       \E text \in {rtrim(SubSeq(src, 1, n))} :
           /\ stdin' = SubSeq(src, n + 1, Len(src))
           /\ buf' = text
           /\ text # <<>>
           /\ IF IsCommand(text)
              THEN load_fails(text)
              ELSE add_item_fails(TheList) /\ UNCHANGED openFiles

\* A pass of the inner loop in which an allocation fails.
AwaitingConfirmationAllocFails(typed) ==
    /\ pc = "AwaitingConfirmation"
    /\ \E src \in Source(typed) :
       \E n \in {fgetsLen(src)} :
       \E text \in {rtrim(SubSeq(src, 1, n))} :
           /\ stdin' = SubSeq(src, n + 1, Len(src))
           /\ buf' = text
           /\ text # <<>>
           /\ text[1] = "/"
           /\ load_fails(text)

AllocLines ==
    { LineA, LineN, LineY, LineEmpty,
      Line(Str_save \o <<" ">> \o PathF),
      Line(Str_load \o <<" ">> \o PathF), Line(Str_load \o <<" ">> \o PathG),
      Line(Str_view \o <<"s">>), Line(Str_clear), Line(Str_quit),
      RemoveLine(<<"3">>) }

\* create_list() where malloc or calloc fails (lines 34-36, 41-43).
create_list_fails ==
    /\ items = <<>>
    /\ capacity = INITIAL_CAPACITY
    /\ files = [p \in Paths |-> IF p = PathG THEN File(DataG) ELSE NoFile]
    /\ stdin = <<>>
    /\ buf = <<>>
    /\ pc = "Fatal"
    /\ out = <<Msg("Out of memory")>>
    /\ exitStatus = "EXIT_FAILURE"
    /\ openFiles = {}

InitAlloc == InitWith(DataG) \/ create_list_fails

NextAlloc ==
    \/ AwaitingItemLine(AllocLines)
    \/ AwaitingItemEof
    \/ AwaitingConfirmationLine(AllocLines)
    \/ AwaitingConfirmationEof
    \/ AwaitingItemAllocFails(AllocLines)
    \/ AwaitingConfirmationAllocFails(AllocLines)

SpecAlloc == InitAlloc /\ [][NextAlloc]_vars

-----------------------------------------------------------------------------
(* Properties *)

\* A step that read a line (not end of input) and left `text` in buf.
HasRead(text) ==
    /\ buf' = text
    /\ ~AwaitingItemEof
    /\ ~AwaitingConfirmationEof

\* What a listing of the items `its` must show: the empty-list message, or a
\* header and one row per item with positions 1, 2, ...
Shown(its) ==
    IF its = <<>>
    THEN <<Msg("(shopping list is empty)")>>
    ELSE <<Msg("Your shopping list:")>> \o
         [i \in 1..Len(its) |-> [msg |-> "row", n |-> i, text |-> its[i]]]

IsViewOut(o) ==
    o # <<>> /\ o[1].msg \in {"Your shopping list:", "(shopping list is empty)"}
IsFinalOut(o) == o # <<>> /\ o[1].msg = "Final list:"

\* The list after adding texts[i], texts[i+1], ... to `list`, one by one.
RECURSIVE AddAll(_, _, _)
AddAll(list, texts, i) ==
    IF i > Len(texts) THEN list ELSE AddAll(add_item(list, texts[i]), texts, i + 1)

\* `its` without its k-th element (k counted from 1).
Without(its, k) == SubSeq(its, 1, k - 1) \o SubSeq(its, k + 1, Len(its))

\* C1: adds starting from the empty list give a list that holds exactly the
\* added texts in insertion order; each interactive add puts the text read last;
\* and a listing (/view or the final one) shows the items in order, numbered
\* 1..count without gaps.
C1_Step ==
    /\ (pc = "AwaitingItem" /\ pc' = "AwaitingConfirmation")
           => /\ out'[1].msg = "Added"
              /\ items' = Append(items, out'[1].text)
    /\ LET l == AddAll(create_list, items', 1)
       IN  l.items = items' /\ print_list(l) = Shown(items')
    /\ IsViewOut(out') => out' = Shown(items')
    /\ IsFinalOut(out') => out' = <<Msg("Final list:")>> \o Shown(items')

C1_AddsListedInOrder == [][C1_Step]_vars

C1_Witness ==
    /\ items = << <<"a">>, <<"y">>, <<"a">> >>
    /\ out = Shown(items)

\* C2: remove(i) with i < count yields the list without element i, the others
\* in their order, count one less; remove(i) with i >= count yields the same
\* list and reports "Invalid index".
C2_RemoveByIndex ==
    \A i \in 0..(MaxItems + 1) :
        LET r == remove_item(TheList, i)
        IN  IF i < Len(items)
            THEN /\ r.list.items = Without(items, i + 1)
                 /\ Len(r.list.items) = Len(items) - 1
                 /\ r.list.capacity = capacity
            ELSE /\ r.list = TheList
                 /\ r.out = <<Msg("Invalid index")>>

\* A removal has happened at the confirmation prompt (the only step there
\* that prints nothing) and left two different items.
C2_Witness ==
    /\ pc = "AwaitingConfirmation"
    /\ out = <<>>
    /\ Len(items) = 2
    /\ items[1] # items[2]

\* The /remove lines read and the value their argument stands for.
C3_Table ==
    { [text |-> Str_remove \o <<" ", "1">>, val |-> 1],
      [text |-> Str_remove \o <<" ", "2">>, val |-> 2],
      [text |-> Str_remove \o <<" ", "3">>, val |-> 3],
      [text |-> Str_remove \o <<" ", "0">>, val |-> 0],
      [text |-> Str_remove \o <<" ", "-", "1">>, val |-> 0 - 1],
      [text |-> Str_remove \o <<" ", "x">>, val |-> 0],
      [text |-> Str_remove \o <<" ", "\t", "+", "2", "x", " ", "1">>, val |-> 2] }

\* C3: /remove ARG with ARG standing for a value <= 0 prints "Specify a positive
\* index" and leaves the list; otherwise it does remove(ARG - 1): for
\* 1 <= k <= count the item shown at position k goes, for k > count the list stays.
C3_Step ==
    \A e \in C3_Table :
        HasRead(e.text) =>
            /\ files' = files /\ capacity' = capacity /\ pc' = pc
            /\ IF e.val <= 0
               THEN out' = <<Msg("Specify a positive index")>> /\ items' = items
               ELSE /\ items' = remove_item(TheList, e.val - 1).list.items
                    /\ out' = remove_item(TheList, e.val - 1).out
                    /\ IF e.val <= Len(items)
                       THEN items' = Without(items, e.val)
                       ELSE items' = items

C3_RemoveCommand == [][C3_Step]_vars

C3_Witness ==
    /\ out = <<Msg("Specify a positive index")>>
    /\ Len(items) = 3

\* The lines of a file's bytes d, told apart by its newlines only.
NewlineAt(d) == {i \in 1..Len(d) : d[i] = "\n"}
LineEnds(d) ==
    NewlineAt(d) \cup (IF Len(d) > 0 /\ d[Len(d)] # "\n" THEN {Len(d) + 1} ELSE {})
LineCount(d) == Cardinality(LineEnds(d))
LineEnd(d, k) ==
    CHOOSE e \in LineEnds(d) : Cardinality({x \in LineEnds(d) : x < e}) = k - 1
LineStart(d, k) == IF k = 1 THEN 1 ELSE LineEnd(d, k - 1) + 1
\* The k-th line without its newline, and with it (when it has one).
FileLine(d, k) == SubSeq(d, LineStart(d, k), LineEnd(d, k) - 1)
FullLine(d, k) ==
    SubSeq(d, LineStart(d, k), IF LineEnd(d, k) > Len(d) THEN Len(d) ELSE LineEnd(d, k))
AllLines(d) == [k \in 1..LineCount(d) |-> FileLine(d, k)]

\* White space only (or empty).
AllWhite(t) == \A i \in 1..Len(t) : t[i] \in {" ", "\t", "\n", "\r", "\f"}

\* t without its trailing white space.
Trimmed(t) ==
    LET keep == {i \in 1..Len(t) : ~AllWhite(SubSeq(t, i, Len(t)))}
    IN  SubSeq(t, 1, Cardinality(keep))

IsNotEmpty(t) == t # <<>>

\* A step that loaded, or saved, a file with success: the message names it.
Loaded(p) == out' # <<>> /\ out'[1].msg = "Loaded" /\ out'[1].text = p
Saved(p) == out' # <<>> /\ out'[1].msg = "Saved" /\ out'[1].text = p

\* C4: saving any reachable list and loading the file into a fresh empty list
\* gives back the same items, in the same order and number.
C4_RoundTrip ==
    LET saved  == save_to_file(TheList, files, PathF)
        loaded == load_from_file(create_list, saved.fs, PathF)
    IN  /\ loaded.list.items = items
        /\ Len(loaded.list.items) = Len(items)

\* /save F, /clear, /load F has run on a list holding one item of
\* BUFFER_SIZE - 1 bytes.
C4_Witness ==
    /\ out = <<MsgN("Loaded", 1, PathF)>>
    /\ Len(items) = 1
    /\ Len(items[1]) = BUFFER_SIZE - 1
    /\ files[PathF].data = items[1] \o <<"\n">>

\* C5: a successful /load appends to the list, in file order, the lines of the
\* file that are not blank, each without its trailing white space.
C5_Step ==
    \A p \in Paths :
        Loaded(p) =>
            items' = items \o SelectSeq([k \in 1..LineCount(files[p].data) |->
                                            Trimmed(FileLine(files[p].data, k))],
                                        IsNotEmpty)

C5_LoadAppendsLines == [][C5_Step]_vars

\* The pieces one line (with its newline) is read in: BUFFER_SIZE - 1 bytes
\* each, the last one shorter.
PieceCount(full) == (Len(full) + BUFFER_SIZE - 2) \div (BUFFER_SIZE - 1)
Piece(full, j) ==
    SubSeq(full, (j - 1) * (BUFFER_SIZE - 1) + 1,
           IF j * (BUFFER_SIZE - 1) < Len(full) THEN j * (BUFFER_SIZE - 1) ELSE Len(full))

\* How many pieces of the lines of d hold more than white space.
NonBlankPieces(d) ==
    Cardinality(UNION { { <<k, j>> : j \in { i \in 1..PieceCount(FullLine(d, k)) :
                                               ~AllWhite(Piece(FullLine(d, k), i)) } } :
                        k \in 1..LineCount(d) })

\* C6 as stated: loading a file into a non-empty list gives
\* original-count + number of lines of the file.
C6_OriginalStep ==
    \A p \in Paths :
        (Loaded(p) /\ items # <<>>) =>
            Len(items') = Len(items) + LineCount(files[p].data)

C6_Original == [][C6_OriginalStep]_vars

\* C6, amended: loading a file into a non-empty list gives original-count +
\* the number of pieces read from the file that hold more than white space (a line
\* shorter than BUFFER_SIZE - 1 bytes is one piece); items already in the list
\* are added again.
C6_Step ==
    \A p \in Paths :
        (Loaded(p) /\ items # <<>>) =>
            /\ Len(items') = Len(items) + NonBlankPieces(files[p].data)
            /\ SubSeq(items', 1, Len(items)) = items

C6_LoadCount == [][C6_Step]_vars

\* G (three lines, one of them blank) has been loaded into the list <<a>>.
C6_Witness ==
    /\ out = <<MsgN("Loaded", 3, PathG)>>
    /\ items = << <<"a">>, <<"N">>, <<"a">> >>

\* The bytes of a saved file: its lines are the items, and each has its newline.
IsSavedForm(d, its) ==
    /\ AllLines(d) = its
    /\ Cardinality(NewlineAt(d)) = Len(its)
    /\ Len(d) > 0 => d[Len(d)] = "\n"

\* C7: a successful /save F leaves in F exactly the items, one per line, each
\* ended by one newline, in list order, whatever F held; the other files and
\* the list stay; a save that cannot open the file changes nothing.
C7_Step ==
    /\ \A p \in Paths :
           Saved(p) =>
               /\ files'[p].exists /\ IsSavedForm(files'[p].data, items)
               /\ \A q \in Paths \ {p} : files'[q] = files[q]
               /\ items' = items /\ capacity' = capacity
    /\ out' = <<Msg("Failed to open file")>> =>
           items' = items /\ capacity' = capacity /\ files' = files
    /\ LET ok  == save_to_file(TheList, files, PathF)
           bad == save_to_file(TheList, files, PathG)
       IN  /\ IsSavedForm(ok.fs[PathF].data, items)
           /\ bad.fs = files

C7_SaveWritesItems == [][C7_Step]_vars

\* /save F has written the one item of the list to F.
C7_Witness ==
    /\ out = <<MsgN("Saved", 1, PathF)>>
    /\ items = << <<"N">> >>
    /\ files[PathF] = File(<<"N", "\n">>)
    /\ buf = Str_save \o <<" ">> \o PathF

\* `list` after n calls of remove(0).
RECURSIVE RemoveFirst(_, _)
RemoveFirst(list, n) ==
    IF n = 0 THEN list ELSE RemoveFirst(remove_item(list, 0).list, n - 1)

\* C8: /clear leaves the list empty, as count calls of remove(0) do (so the
\* loop ends), and a listing of the empty list shows the empty-list message.
C8_Step ==
    /\ out' = <<Msg("Cleared the list")>> =>
           /\ items' = <<>>
           /\ [items |-> items', capacity |-> capacity'] = RemoveFirst(TheList, Len(items))
           /\ files' = files
           /\ print_list([items |-> items', capacity |-> capacity'])
                  = <<Msg("(shopping list is empty)")>>
    /\ (items' = <<>> /\ IsViewOut(out')) => out' = <<Msg("(shopping list is empty)")>>
    /\ (items' = <<>> /\ IsFinalOut(out'))
           => out' = <<Msg("Final list:"), Msg("(shopping list is empty)")>>

C8_ClearEmpties == [][C8_Step]_vars

\* /clear has run at the confirmation prompt, where the list held an item.
C8_Witness ==
    /\ out = <<Msg("Cleared the list")>>
    /\ pc = "AwaitingConfirmation"
    /\ items = <<>>

\* File contents that hold nothing but blank lines.
BlankData ==
    { <<>>, <<"\n">>, <<"\r", "\n">>, <<" ", " ", " ">>,
      <<" ", "\t", "\r", "\n", "\n", " ", "\n">> }

\* C9: a line typed at either prompt that is empty, white space or CR LF
\* leaves the list as it is, a file of such lines loads nothing, and no
\* stored item is blank.
C9_Step ==
    /\ \A l \in BlankLines :
           /\ (pc = "AwaitingItem" /\ stdin = <<>> /\ AwaitingItemOn(l))
                  => items' = items /\ capacity' = capacity /\ pc' = pc
           /\ (pc = "AwaitingConfirmation" /\ stdin = <<>> /\ AwaitingConfirmationOn(l))
                  => items' = items /\ capacity' = capacity /\ pc' = pc
    /\ \A d \in BlankData : load_loop(TheList, d) = TheList
    /\ \A i \in 1..Len(items') : ~AllWhite(items'[i])
    /\ \A p \in Paths : Loaded(p) => Len(items') - Len(items) <= NonBlankPieces(files[p].data)

C9_BlankNeverAdded == [][C9_Step]_vars

\* A blank line has been answered at the item prompt, the list holding two items.
C9_Witness ==
    /\ out = <<Msg("(no input)")>>
    /\ pc = "AwaitingItem"
    /\ buf = <<>>
    /\ Len(items) = 2

\* The first token of `text` is /quit.
IsQuit(text) ==
    /\ Len(text) >= 5
    /\ SubSeq(text, 1, 5) = <<"/", "q", "u", "i", "t">>
    /\ Len(text) > 5 => text[6] \in {" ", "\t"}

\* The cases of a pass of the outer loop other than a command line: end of
\* input, an empty line, an item.
C10_OtherCases ==
    /\ pc' = "Finalize" =>
           /\ stdin = <<>> /\ buf' = buf
           /\ items' = items /\ capacity' = capacity
           /\ out' = <<Msg("Final list:")>> \o Shown(items)
    /\ (pc' # "Finalize" /\ buf' = <<>>) =>
           items' = items /\ capacity' = capacity /\ pc' = "AwaitingItem"
    /\ (pc' # "Finalize" /\ buf' # <<>> /\ buf'[1] # "/") =>
           /\ items' = Append(items, buf')
           /\ Len(items') = Len(items) + 1
           /\ pc' = "AwaitingConfirmation"

\* C10 as stated: in AwaitingItem every command line leaves the loop in
\* AwaitingItem.
C10_OriginalStep ==
    pc = "AwaitingItem" =>
        /\ C10_OtherCases
        /\ (pc' # "Finalize" /\ buf' # <<>> /\ buf'[1] = "/") => pc' = "AwaitingItem"

C10_Original == [][C10_OriginalStep]_vars

\* C10, amended: in AwaitingItem end of input goes to Finalize, an empty line
\* changes nothing and stays, a line that is not a command is appended as one new
\* last item and the loop goes to AwaitingConfirmation, and a line starting
\* with '/' is dispatched and the loop stays in AwaitingItem, except /quit, which
\* ends the process with success and without the final listing.
C10_Step ==
    pc = "AwaitingItem" =>
        /\ C10_OtherCases
        /\ (pc' # "Finalize" /\ buf' # <<>> /\ buf'[1] = "/") =>
               /\ Len(items') <= Len(items) \/ out'[1].msg = "Loaded"
               /\ IF IsQuit(buf')
                  THEN pc' = "Quit" /\ exitStatus' = "EXIT_SUCCESS"
                       /\ out' = <<Msg("Goodbye!")>> /\ items' = items
                  ELSE pc' = "AwaitingItem"

C10_AwaitingItem == [][C10_Step]_vars

\* A lone "/" has been dispatched at the item prompt, the list holding two items.
C10_Witness ==
    /\ pc = "AwaitingItem"
    /\ buf = <<"/">>
    /\ out = <<Msg("Unknown command. Type /help for commands.")>>
    /\ Len(items) = 2

\* The step is a pass of the inner loop that read a line (not end of input).
C11_Read == pc = "AwaitingConfirmation" /\ ~AwaitingConfirmationEof

C11_Reminder == <<Msg("Please answer y or n. You can also use /view, /save, /help, etc.")>>

\* The cases of a pass of the inner loop other than a command line.
C11_OtherCases ==
    /\ (C11_Read /\ buf' = <<>>) =>
           /\ pc' = pc /\ out' = <<Msg("Please answer y or n.")>>
           /\ items' = items /\ capacity' = capacity /\ files' = files
    /\ (C11_Read /\ buf' # <<>> /\ buf'[1] \in {"y", "Y"}) =>
           /\ pc' = "AwaitingItem"
           /\ items' = items /\ capacity' = capacity /\ files' = files
    /\ (C11_Read /\ buf' # <<>> /\ buf'[1] \in {"n", "N"}) =>
           /\ pc' = "Finalize"
           /\ items' = items /\ capacity' = capacity /\ files' = files
    /\ (C11_Read /\ buf' # <<>> /\ buf'[1] \notin {"y", "Y", "n", "N", "/"}) =>
           /\ pc' = pc /\ out' = C11_Reminder
           /\ items' = items /\ capacity' = capacity /\ files' = files
    /\ (pc = "AwaitingConfirmation" /\ items' # items) =>
           /\ C11_Read /\ buf' # <<>> /\ buf'[1] = "/"
           /\ out' = <<>> \/ out'[1].msg \in {"Loaded", "Cleared the list"}
    /\ (pc = "AwaitingConfirmation" /\ out' # <<>>) => out'[1].msg # "Added"

\* C11 as stated: in AwaitingConfirmation every command line leaves the loop
\* in AwaitingConfirmation.
C11_OriginalStep ==
    /\ C11_OtherCases
    /\ (C11_Read /\ buf' # <<>> /\ buf'[1] = "/") => pc' = "AwaitingConfirmation"

C11_Original == [][C11_OriginalStep]_vars

\* C11, amended: in AwaitingConfirmation a first character y/Y returns to
\* AwaitingItem, n/N goes to Finalize, an empty line stays, any other line that
\* is not a command prints a reminder and stays, and a line starting with '/'
\* is dispatched and the loop stays in AwaitingConfirmation, except /quit,
\* which ends the process with success and without the final listing.  No line
\* read there is added as an item: the list changes only through a command.
C11_Step ==
    /\ C11_OtherCases
    /\ (C11_Read /\ buf' # <<>> /\ buf'[1] = "/") =>
           IF IsQuit(buf')
           THEN pc' = "Quit" /\ exitStatus' = "EXIT_SUCCESS"
                /\ out' = <<Msg("Goodbye!")>> /\ items' = items
           ELSE pc' = "AwaitingConfirmation"

C11_AwaitingConfirmation == [][C11_Step]_vars

\* The line "a" has been typed at the confirmation prompt: it was answered by
\* the reminder and not added.
C11_Witness ==
    /\ pc = "AwaitingConfirmation"
    /\ out = C11_Reminder
    /\ buf = <<"a">>
    /\ items = << <<"N">> >>

\* C12: the loop reaches Finalize only on end of input (either state) or on
\* an n/N answer; the step prints "Final list:" and the list as it stands, in
\* order with positions from 1, leaves list and files alone and exits with
\* success; nothing runs after it.
C12_Step ==
    /\ pc # "Finalize"
    /\ pc' = "Finalize" =>
           /\ pc \in {"AwaitingItem", "AwaitingConfirmation"}
           /\ \/ stdin = <<>> /\ buf' = buf /\ stdin' = stdin
              \/ pc = "AwaitingConfirmation" /\ buf' # <<>> /\ buf'[1] \in {"n", "N"}
           /\ out' = <<Msg("Final list:")>> \o Shown(items)
           /\ exitStatus' = "EXIT_SUCCESS"
           /\ items' = items /\ capacity' = capacity /\ files' = files
    /\ (AwaitingItemEof \/ AwaitingConfirmationEof) => pc' = "Finalize"
    /\ (exitStatus = "none" /\ exitStatus' # "none" /\ out'[1].msg = "Final list:")
           => pc' = "Finalize"

C12_FinalizePrintsList == [][C12_Step]_vars

\* add "a", y, add "N", N: the final list is 1. a, 2. N.
C12_Witness ==
    /\ pc = "Finalize"
    /\ exitStatus = "EXIT_SUCCESS"
    /\ buf = <<"N">>
    /\ items = << <<"a">>, <<"N">> >>
    /\ out = << Msg("Final list:"), Msg("Your shopping list:"),
                MsgN("row", 1, <<"a">>), MsgN("row", 2, <<"N">>) >>

\* C13: /quit read at either prompt ends the process at once: it prints the
\* farewell only (no final listing), exits with success, leaves list and files
\* alone, and no line is read after it.
C13_Step ==
    /\ pc # "Quit"
    /\ (pc \in {"AwaitingItem", "AwaitingConfirmation"}
        /\ ~AwaitingItemEof /\ ~AwaitingConfirmationEof /\ IsQuit(buf')) =>
           /\ pc' = "Quit"
           /\ out' = <<Msg("Goodbye!")>>
           /\ exitStatus' = "EXIT_SUCCESS"
           /\ items' = items /\ capacity' = capacity /\ files' = files
    /\ pc' = "Quit" =>
           /\ IsQuit(buf')
           /\ \A i \in 1..Len(out') : out'[i].msg \notin {"Final list:", "Your shopping list:",
                                                         "(shopping list is empty)"}
           /\ exitStatus' = "EXIT_SUCCESS"

C13_QuitTerminates == [][C13_Step]_vars

\* /quit has been typed at a prompt, the list holding two items.
C13_Witness ==
    /\ pc = "Quit"
    /\ buf = <<"/", "q", "u", "i", "t">>
    /\ out = <<Msg("Goodbye!")>>
    /\ exitStatus = "EXIT_SUCCESS"
    /\ Len(items) = 2

\* C14: a line that is just "/" is handled as a no-op: no item is added and
\* no message (error or unknown command) is printed.
C14_Step ==
    (pc \in {"AwaitingItem", "AwaitingConfirmation"} /\ HasRead(<<"/">>)) =>
        /\ items' = items /\ capacity' = capacity /\ files' = files /\ pc' = pc
        /\ out' = <<>>

C14_SlashIsNoOp == [][C14_Step]_vars

\* The messages that report a recoverable error.
ErrorMessages ==
    { "Invalid index", "Usage: /remove INDEX", "Specify a positive index",
      "Usage: /save filename", "Usage: /load filename",
      "Unknown command. Type /help for commands.", "Failed to open file",
      "Please answer y or n.",
      "Please answer y or n or enter a command starting with /.",
      "Please answer y or n. You can also use /view, /save, /help, etc." }

\* The message a line in error must be answered with, for the lines typed.
C15_Table ==
    { [text |-> Str_remove \o <<" ", "3">>, when |-> Len(items) < 3, msg |-> "Invalid index"],
      [text |-> Str_remove \o <<" ", "2">>, when |-> Len(items) < 2, msg |-> "Invalid index"],
      [text |-> Str_remove \o <<" ", "1">>, when |-> Len(items) < 1, msg |-> "Invalid index"],
      [text |-> Str_remove \o <<" ", "0">>, when |-> TRUE, msg |-> "Specify a positive index"],
      [text |-> Str_remove \o <<" ", "x">>, when |-> TRUE, msg |-> "Specify a positive index"],
      [text |-> Str_remove, when |-> TRUE, msg |-> "Usage: /remove INDEX"],
      [text |-> Str_save, when |-> TRUE, msg |-> "Usage: /save filename"],
      [text |-> Str_load, when |-> TRUE, msg |-> "Usage: /load filename"],
      [text |-> Str_view \o <<"s">>, when |-> TRUE,
       msg |-> "Unknown command. Type /help for commands."],
      [text |-> Str_save \o <<" ">> \o PathG, when |-> TRUE, msg |-> "Failed to open file"],
      [text |-> Str_load \o <<" ">> \o PathF, when |-> ~files[PathF].exists,
       msg |-> "Failed to open file"],
      [text |-> <<"a">>, when |-> pc = "AwaitingConfirmation",
       msg |-> "Please answer y or n. You can also use /view, /save, /help, etc."] }

\* C15: every recoverable error is answered by its message, and the step
\* changes neither the list, the files nor the state of the loop, which goes
\* on (the process does not exit).
C15_Step ==
    /\ (out' # <<>> /\ out'[1].msg \in ErrorMessages) =>
           /\ Len(out') = 1
           /\ items' = items /\ capacity' = capacity /\ files' = files
           /\ pc' = pc /\ pc \in {"AwaitingItem", "AwaitingConfirmation"}
           /\ exitStatus' = "none"
    /\ \A e \in C15_Table :
           (HasRead(e.text) /\ e.when) => out' = <<Msg(e.msg)>>

C15_ErrorsLeaveState == [][C15_Step]_vars

\* /save G could not open G, at the confirmation prompt with two items.
C15_Witness ==
    /\ out = <<Msg("Failed to open file")>>
    /\ buf = Str_save \o <<" ">> \o PathG
    /\ pc = "AwaitingConfirmation"
    /\ Len(items) = 2

\* The step ends the process on end of input.
C16_Eof == stdin = <<>> /\ buf' = buf /\ stdin' = stdin /\ pc' = "Finalize"

\* What holds of every termination: it happens once, a non-zero status comes
\* with an allocation failure and only with it, and an allocation fails only
\* where the pass adds an item or loads a file.
C16_Status ==
    /\ exitStatus = "none"
    /\ exitStatus' \in {"none", "EXIT_SUCCESS", "EXIT_FAILURE"}
    /\ exitStatus' # "none" <=> pc' \in {"Finalize", "Quit", "Fatal"}
    /\ exitStatus' = "EXIT_FAILURE" <=> out' = <<Msg("Out of memory")>>
    /\ out' = <<Msg("Out of memory")>> =>
           /\ buf' # <<>>
           /\ IF buf'[1] = "/"
              THEN Len(buf') > 5 /\ SubSeq(buf', 1, 5) = <<"/", "l", "o", "a", "d">>
              ELSE pc = "AwaitingItem"

\* C16 as stated: the process ends only on /quit, on end of input or on an
\* allocation failure.
C16_OriginalStep ==
    /\ C16_Status
    /\ exitStatus' # "none" =>
           \/ IsQuit(buf') /\ pc' = "Quit"
           \/ C16_Eof
           \/ out' = <<Msg("Out of memory")>>

C16_Original == [][C16_OriginalStep]_vars

\* C16, amended: the process ends only on /quit, on end of input, on an n/N
\* answer at the confirmation prompt, or on an allocation failure; the exit
\* status is non-zero on an allocation failure and 0 on every other termination.
C16_Step ==
    /\ C16_Status
    /\ exitStatus' # "none" =>
           \/ IsQuit(buf') /\ pc' = "Quit" /\ exitStatus' = "EXIT_SUCCESS"
           \/ C16_Eof /\ exitStatus' = "EXIT_SUCCESS"
           \/ /\ pc = "AwaitingConfirmation" /\ buf' # <<>> /\ buf'[1] \in {"n", "N"}
              /\ pc' = "Finalize" /\ exitStatus' = "EXIT_SUCCESS"
           \/ out' = <<Msg("Out of memory")>> /\ exitStatus' = "EXIT_FAILURE"

C16_OnlyFatalFails == [][C16_Step]_vars

\* After "a" and y, the allocation for the item "N" has failed.
C16_Witness ==
    /\ pc = "Fatal"
    /\ exitStatus = "EXIT_FAILURE"
    /\ out = <<Msg("Out of memory")>>
    /\ buf = <<"N">>
    /\ items = << <<"a">> >>

\* The list and the files after the command line `text`, as a function of the
\* list, the files and the line alone.
CmdEffect(list, fs, text) ==
    LET t1  == strtok(text, 1)
        cmd == t1.tok
        arg == strtok(text, t1.next).tok
    IN  IF cmd = <<"/", "r", "e", "m", "o", "v", "e">> /\ arg # <<>> /\ strtol(arg) > 0
        THEN [list |-> remove_item(list, strtol(arg) - 1).list, fs |-> fs]
        ELSE IF cmd = <<"/", "s", "a", "v", "e">> /\ arg # <<>>
        THEN [list |-> list, fs |-> save_to_file(list, fs, arg).fs]
        ELSE IF cmd = <<"/", "l", "o", "a", "d">> /\ arg # <<>>
        THEN [list |-> load_from_file(list, fs, arg).list, fs |-> fs]
        ELSE IF cmd = <<"/", "c", "l", "e", "a", "r">>
        THEN [list |-> [list EXCEPT !.items = <<>>], fs |-> fs]
        ELSE [list |-> list, fs |-> fs]

\* The step is a pass of either loop that read a command line.
C17_Command ==
    /\ pc \in {"AwaitingItem", "AwaitingConfirmation"}
    /\ ~AwaitingItemEof /\ ~AwaitingConfirmationEof
    /\ buf' # <<>> /\ buf'[1] = "/"

\* In both states a command line changes list and files by CmdEffect, and
\* "bread", /remove 1 leaves the empty list.
C17_SameEffect ==
    /\ C17_Command =>
           /\ [items |-> items', capacity |-> capacity'] = CmdEffect(TheList, files, buf').list
           /\ files' = CmdEffect(TheList, files, buf').fs
    /\ (pc = "AwaitingConfirmation" /\ Len(items) = 1
        /\ HasRead(<<"/", "r", "e", "m", "o", "v", "e", " ", "1">>)) => items' = <<>>

\* C17 as stated: every command line leaves the loop in the state it was
\* issued from.
C17_OriginalStep ==
    /\ C17_SameEffect
    /\ C17_Command => pc' = pc

C17_Original == [][C17_OriginalStep]_vars

\* C17, amended: a command line has the same effect on the list and on the
\* files whether it is dispatched from AwaitingItem or from
\* AwaitingConfirmation, and it leaves the loop in the state it was issued
\* from, except /quit, which ends the process from either state.
C17_Step ==
    /\ C17_SameEffect
    /\ C17_Command => IF IsQuit(buf') THEN pc' = "Quit" ELSE pc' = pc

C17_CommandsAlike == [][C17_Step]_vars

\* The one item of the list has been removed by /remove 1 at the confirmation
\* prompt.
C17_Witness ==
    /\ pc = "AwaitingConfirmation"
    /\ buf = <<"/", "r", "e", "m", "o", "v", "e", " ", "1">>
    /\ out = <<>>
    /\ items = <<>>

\* C18: no file handle is open when the loop waits for input or when the
\* process has terminated: each handle is closed within the save or load call
\* that opened it, on every exit path.
C18_NoOpenHandle == openFiles = {}

\* The first and the second token of a command line.
FirstToken(text) == strtok(text, 1).tok
SecondToken(text) == strtok(text, strtok(text, 1).next).tok

\* C19: the content of a file changes only in a step that dispatches a /save
\* naming it (never on an add, /remove, /clear, /view, /load, /quit or in
\* Finalize), and the list takes items other than the line typed only in a
\* step that dispatches a /load.
C19_Step ==
    /\ \A p \in Paths :
           files'[p] # files[p] =>
               /\ pc \in {"AwaitingItem", "AwaitingConfirmation"} /\ pc' = pc
               /\ buf' # <<>> /\ buf'[1] = "/"
               /\ FirstToken(buf') = <<"/", "s", "a", "v", "e">>
               /\ SecondToken(buf') = p
               /\ items' = items
               /\ \A q \in Paths \ {p} : files'[q] = files[q]
    /\ (Len(items') > Len(items) /\ ~(pc = "AwaitingItem" /\ items' = Append(items, buf'))) =>
           /\ buf' # <<>> /\ buf'[1] = "/"
           /\ FirstToken(buf') = <<"/", "l", "o", "a", "d">>
           /\ SecondToken(buf') \in Paths /\ files[SecondToken(buf')].exists
           /\ files' = files
    /\ (out' # <<>> /\ out'[1].msg \in {"Final list:", "Goodbye!", "Cleared the list",
                                       "Your shopping list:", "Added", "Loaded"})
           => files' = files

C19_PersistenceOnCommand == [][C19_Step]_vars

\* The list saved to F has come back through /load F: F is as saved, and the
\* list holds its item twice.
C19_Witness ==
    /\ out = <<MsgN("Loaded", 2, PathF)>>
    /\ buf = Str_load \o <<" ">> \o PathF
    /\ files[PathF] = File(<<"N", "\n">>)
    /\ items = << <<"N">>, <<"N">> >>

\* The characters rtrim removes from the end of a text.
WhiteSpace == {" ", "\t", "\n", "\r", "\f"}

\* 8, 16, 32, ...: INITIAL_CAPACITY times a power of two.
RECURSIVE IsCapacity(_)
IsCapacity(c) ==
    IF c <= 8 THEN c = 8 ELSE c % 2 = 0 /\ IsCapacity(c \div 2)

\* The list is dense, each slot holding a non-empty text without trailing
\* white space, within a capacity that is 8 times a power of two.
C20_Inv(its, cap) ==
    /\ DOMAIN its = 1..Len(its)
    /\ \A i \in 1..Len(its) :
           /\ its[i] # <<>>
           /\ its[i][Len(its[i])] \notin WhiteSpace
    /\ Len(its) <= cap
    /\ IsCapacity(cap)

\* C20: in every reachable state, after any interleaving of add, /remove,
\* /clear and /load, the list is dense with non-empty trimmed items,
\* count <= capacity, the capacity is 8 times a power of two, and no step
\* (removal and clear included) makes the capacity smaller; it doubles exactly
\* when an item is added to a full list.
C20_Step ==
    /\ C20_Inv(items, capacity)
    /\ C20_Inv(items', capacity')
    /\ capacity' >= capacity
    /\ Len(items') <= Len(items) => capacity' = capacity
    /\ capacity' > capacity => Len(items') > capacity

C20_DenseWithinCapacity == [][C20_Step]_vars

\* The list has grown to 17 items (capacity 32) and has then been cleared.
C20_Witness ==
    /\ capacity = 32
    /\ items = <<>>
    /\ out = <<Msg("Cleared the list")>>

=============================================================================
